---------------------------- MODULE Spec2Model ----------------------------
(***************************************************************************)
(* A model of the monadic library (src/src/monad.ts, src/src/util.ts):     *)
(* a Monad wraps a promise of an Either; every combinator attaches one     *)
(* reaction to the promise of its receiver and wraps the derived promise   *)
(* in a new Monad.                                                         *)
(*                                                                         *)
(* The module holds one state machine per part of the library:             *)
(*   Spec         construction, the combinators and terminal evaluation    *)
(*   SpecMatch    Monad.match                                              *)
(*   SpecZip      Util.zip                                                 *)
(*   SpecRetry    Util.retry                                               *)
(*   SpecTimeout  Util.timeout                                             *)
(* FairSpecZip, FairSpecRetry and FairSpecTimeout add the fairness of the  *)
(* event loop: reactions of settled promises run and armed timers fire.    *)
(* Each machine owns its variables; the other machines' variables stay at  *)
(* their idle values.                                                      *)
(***************************************************************************)
EXTENDS Integers, Sequences, FiniteSets, Bags, TLC

\* ------------------------------------------------------------------------
\* Bounds
\* ------------------------------------------------------------------------
MaxMonads == 2      \* Monad objects built in one run of Spec
MaxEvals == 2       \* terminal evaluations (yield / toPromise) in one run

\* ------------------------------------------------------------------------
\* JavaScript values.  Every value is a record of the same shape: its kind
\* (string, boolean, undefined, Error, DOMException) and its text (the
\* string itself, the message of an Error, the name of a DOMException).
\* ------------------------------------------------------------------------
Str(s) == [kind |-> "string", s |-> s]
Err(msg) == [kind |-> "Error", s |-> msg]
Bool(b) == [kind |-> "boolean", s |-> IF b THEN "true" ELSE "false"]
Undefined == [kind |-> "undefined", s |-> ""]
Null == [kind |-> "null", s |-> ""]

\* ToBoolean of a value: undefined, null, "" and false are the falsy ones here.
Truthy(v) ==
  /\ v.kind \notin {"undefined", "null"}
  /\ ~(v.kind = "string" /\ v.s = "")
  /\ ~(v.kind = "boolean" /\ v.s = "false")

\* `error instanceof Error`
InstanceOfError(x) == x.kind \in {"Error", "DOMException"}

\* A coercion that keeps the thrown value whatever it is.
CoerceNever(x) == x

\* `error instanceof Error ? error.message : error`
Coerce(x) == IF InstanceOfError(x) THEN Str(x.s) ELSE x

\* The values the runs draw from.
Values == {Str("a")}                        \* values passed to of / resolved
Results == {Str("b")}                       \* values user functions return
Errors == {Str("e1"), Str(""), Err("boom")} \* errors passed to fail / rejected
Thrown == {Err("boom"), Str("")}            \* values user functions throw

\* ------------------------------------------------------------------------
\* The state of a promise of an Either: pending, fulfilled with
\* Success(value) or Failure(error), or rejected with a reason.
\* ------------------------------------------------------------------------
Settled(tag, val) == [tag |-> tag, val |-> val]
Pending == Settled("Pending", Undefined)
Success(value) == Settled("Success", value)
Failure(error) == Settled("Failure", error)
Rejected(reason) == Settled("Rejected", reason)

isSuccess(either) == either.tag = "Success"
IsEither(p) == p.tag \in {"Success", "Failure"}

\* ------------------------------------------------------------------------
\* What a call of a user-supplied function does.
\*   value    returns val
\*   throw    throws val
\*   promise  returns a promise that resolves to val (tag Success) or
\*            rejects with val (tag Rejected)
\*   monad    returns a Monad whose promise settles to Settled(tag, val)
\*   failure  returns a Failure object carrying val
\*   given    (orElse only) the argument is a Monad, not a function
\* ------------------------------------------------------------------------
Fn(how, tag, val) == [how |-> how, tag |-> tag, val |-> val]
Returns(S) == {Fn("value", "Success", v) : v \in S}
Throws == {Fn("throw", "Rejected", x) : x \in Thrown}
Resolves(S) == {Fn("promise", "Success", v) : v \in S}
Rejects == {Fn("promise", "Rejected", x) : x \in Thrown}
ReturnsMonad ==
  {Fn("monad", "Success", v) : v \in Results}
    \cup {Fn("monad", "Failure", Err("boom"))}
GivenMonad ==
  {Fn("given", "Success", v) : v \in Results}
    \cup {Fn("given", "Failure", Str("e1"))}

\* The outcome of awaiting what the function returned: the value, or a throw.
Threw(fn) == fn.how = "throw" \/ (fn.how = "promise" /\ fn.tag = "Rejected")

\* The result of one reaction: the state the derived promise settles to and
\* the number of user functions the reaction invoked.
Step(out, calls) == [out |-> out, calls |-> calls]


\* ========================================================================
\* Construction, combinators and terminal evaluation
\* ========================================================================
VARIABLES
  monads,   \* the Monad objects built so far; monads[m].st is the state of
            \* the promise Monad m owns (its private field `value`)
  evals     \* the terminal evaluations made so far, a bag: which Monad was
            \* evaluated, by yield or by toPromise, and what was observed

\* Monad.match
VARIABLES
  mIn,        \* the Either the receiver of match settled to
  mConds,     \* the conditions: what each predicate and each action does
  mArg,       \* the options argument as passed
  mPc,        \* "idle", "loop" (in the for loop) or "done"
  mI,         \* the index of the condition the loop examines next
  mMatched,   \* the local `matched`
  mPredCalls, \* the indices of the conditions whose predicate was invoked
  mActCalls,  \* the indices of the conditions whose action was invoked
  mOut        \* the state of the promise of the derived Monad

\* Util.zip
VARIABLES
  zForm,       \* how zip was called: with one "array" or "variadic"
  zKids,       \* the entries passed to zip: the name and the promise of each
  zPc,         \* "idle", "joining" (Promise.all pending) or "done"
  zOutOfOrder, \* some child settled before a child of lower index
  zOut         \* what the promise of the aggregate settled to

\* Util.retry
VARIABLES
  rOpt,          \* the options passed to retry
  rPc,           \* "idle", "attempt" (awaiting the operation), "delay" or "done"
  rRetriesLeft,  \* the parameter retriesLeft of the running retryOperation
  rCurrentDelay, \* its parameter currentDelay
  rCalls,        \* the number of calls of operationFn
  rAttempts,     \* what each attempt settled to, in order
  rOnError,      \* the calls of onError: the error and the attempt index
  rWaits,        \* the delays that have elapsed
  rOut           \* the state of the promise of the Monad retry returned

\* Util.timeout
VARIABLES
  tPc,             \* "idle" or "running"
  tErr,            \* the argument timeoutError
  tOuter,          \* the state of the promise of the Monad timeout returned
  tTimer,          \* "none", "armed", "fired" or "cleared"
  tAborted,        \* abortController.signal.aborted
  tAbortSupported, \* the local isAbortSupported
  tOp,             \* the state of the promise of the operation's Monad
  tEvents,         \* which of "operation" and "timer" happened, in order
  tSeen            \* what each yield() of the returned Monad observed

\* Monad.fold
VARIABLES
  fPc,        \* "idle", "awaiting" (at `await this.yield()`) or "done"
  fCallbacks, \* what onSuccess and onFailure do when called
  fIn,        \* what the promise of the receiver settled to
  fInvoked,   \* the callbacks invoked, in order
  fOut        \* the state of the promise fold returned

\* Monad.handleErrors, handleSpecificErrors, handleHttpErrors
VARIABLES
  hPc,       \* "idle", "derived" (the Monad is built) or "done"
  hVia,      \* the method that was called
  hCriteria, \* the criteria it was called with
  hHandler,  \* what the handler does when called
  hIn,       \* what the promise of the receiver settled to
  hCalls,    \* calls of the handler
  hOut       \* the state of the promise of the returned Monad

\* EventStream
VARIABLES
  sListeners,  \* the array `listeners`
  sSubs,       \* the subscribe calls so far: the listener passed and whether
               \* the function the call returned has been called
  sPc,         \* "idle", or "emitting" inside the forEach of emit
  sEvent,      \* the state of the promise of the EventMonad of the emit
  sK,          \* the index forEach visits next (from 0)
  sLen,        \* the length of the array when forEach started
  sExpected,   \* the listeners of the subscriptions in force when it started
  sDelivered,  \* the listeners the emit has invoked, in order
  sEmits       \* emit calls so far

chainVars == <<monads, evals>>
foldVars == <<fPc, fCallbacks, fIn, fInvoked, fOut>>
handleVars == <<hPc, hVia, hCriteria, hHandler, hIn, hCalls, hOut>>
streamVars == <<sListeners, sSubs, sPc, sEvent, sK, sLen, sExpected,
                sDelivered, sEmits>>
moreVars == <<foldVars, handleVars, streamVars>>
zipVars == <<zForm, zKids, zPc, zOutOfOrder, zOut>>
retryVars == <<rOpt, rPc, rRetriesLeft, rCurrentDelay, rCalls, rAttempts,
               rOnError, rWaits, rOut>>
timeoutVars == <<tPc, tErr, tOuter, tTimer, tAborted, tAbortSupported, tOp,
                 tEvents, tSeen>>
matchVars == <<mIn, mConds, mArg, mPc, mI, mMatched, mPredCalls, mActCalls, mOut>>

\* Util.of: `if (error)` decides, so a falsy error argument counts as absent.
of(value, error) == IF Truthy(error) THEN Failure(error) ELSE Success(value)

\* Util.fail
fail(error) == Failure(error)

\* Util.fromPromise, once the wrapped promise has settled to p.
fromPromise(p) == IF p.tag = "Rejected" THEN Failure(p.val) ELSE Success(p.val)

\* A map whose Failure branch coerces the error the way its catch clause does.
mapCoercingFailure(either, fn) ==
  IF isSuccess(either)
  THEN Step(IF Threw(fn) THEN Failure(Coerce(fn.val)) ELSE Success(fn.val), 1)
  ELSE Step(Failure(Coerce(either.val)), 0)

\* Monad.map: the reaction to an Either.
map(either, fn) ==
  IF isSuccess(either)
  THEN Step(IF Threw(fn) THEN Failure(Coerce(fn.val)) ELSE Success(fn.val), 1)
  ELSE Step(Failure(either.val), 0)

\* A Monad as a value: what map wraps, and what a flatMap that did not
\* flatten would wrap.
MonadObject(either) == [kind |-> "Monad", s |-> either.tag]

\* A flatMap that wraps a returned Monad like any other value.
flatMapNested(either, fn) ==
  IF isSuccess(either)
  THEN Step(CASE Threw(fn) -> Failure(Coerce(fn.val))
              [] fn.how = "monad" -> Success(MonadObject(Settled(fn.tag, fn.val)))
              [] fn.how = "failure" -> Failure(fn.val)
              [] OTHER -> Success(fn.val),
            1)
  ELSE Step(Failure(either.val), 0)

\* Monad.flatMap.  A promise returned by fn is adopted by the `.then` that
\* calls fn, so the `instanceof Promise` branch only sees plain values.
flatMap(either, fn) ==
  IF isSuccess(either)
  THEN Step(CASE Threw(fn) -> Failure(Coerce(fn.val))
              [] fn.how = "monad" -> Settled(fn.tag, fn.val)
              [] fn.how = "failure" -> Failure(fn.val)
              [] OTHER -> Success(fn.val),
            1)
  ELSE Step(Failure(either.val), 0)

\* Monad.recover: fn runs inside the reaction, unguarded.
recover(either, fn) ==
  IF isSuccess(either)
  THEN Step(either, 0)
  ELSE Step(IF Threw(fn) THEN Rejected(fn.val) ELSE Success(fn.val), 1)

\* An orElse that takes the alternative's outcome for a value, as recover
\* does.
orElseRecovering(either, alternative) ==
  IF isSuccess(either)
  THEN Step(either, 0)
  ELSE IF alternative.how = "given"
       THEN Step(Success(alternative.val), 0)
       ELSE Step(IF Threw(alternative)
                 THEN Rejected(alternative.val)
                 ELSE Success(alternative.val),
                 1)

\* Monad.orElse: the alternative is a Monad or a function returning one.
orElse(either, alternative) ==
  IF isSuccess(either)
  THEN Step(either, 0)
  ELSE IF alternative.how = "given"
       THEN Step(Settled(alternative.tag, alternative.val), 0)
       ELSE Step(IF Threw(alternative)
                 THEN Rejected(alternative.val)
                 ELSE Settled(alternative.tag, alternative.val),
                 1)

\* The default errorFn of Monad.filter.
DefaultErrorFn == Fn("default", "Success", Str("Value did not satisfy the predicate"))

\* A filter whose catch clause reports what the predicate threw, as map
\* does.
filterCarryingException(either, predicate, errorFn) ==
  IF ~isSuccess(either)
  THEN Step(either, 0)
  ELSE IF Threw(predicate)
       THEN Step(Failure(Coerce(predicate.val)), 1)
       ELSE IF Truthy(predicate.val)
            THEN Step(either, 1)
            ELSE Step(IF Threw(errorFn) THEN Rejected(errorFn.val) ELSE Failure(errorFn.val),
                      IF errorFn.how = "default" THEN 1 ELSE 2)

\* Monad.filter: the predicate is awaited inside try/catch, errorFn is not.
filter(either, predicate, errorFn) ==
  IF ~isSuccess(either)
  THEN Step(either, 0)
  ELSE IF ~Threw(predicate) /\ Truthy(predicate.val)
       THEN Step(either, 1)
       ELSE Step(IF Threw(errorFn) THEN Rejected(errorFn.val) ELSE Failure(errorFn.val),
                 IF errorFn.how = "default" THEN 1 ELSE 2)

\* Monad.tap: fn's result is awaited, unguarded.
tap(either, fn) ==
  IF isSuccess(either)
  THEN Step(IF Threw(fn) THEN Rejected(fn.val) ELSE either, 1)
  ELSE Step(either, 0)

\* The default transformer of Monad.log.
DefaultTransformer == Fn("default", "Success", Str("log"))

\* Monad.log: the transformer runs on Success and on Failure, unguarded.
log(either, transformer) ==
  Step(IF Threw(transformer) THEN Rejected(transformer.val) ELSE either,
       IF transformer.how = "default" THEN 0 ELSE 1)

\* The functions a caller may pass to each combinator.
MapFns == Returns(Results) \cup Resolves(Results) \cup Throws \cup Rejects
FlatMapFns ==
  MapFns \cup ReturnsMonad \cup {Fn("failure", "Failure", Str("e1"))}
RecoverFns == Returns(Results) \cup Throws
Alternatives == GivenMonad \cup ReturnsMonad \cup Throws
Predicates ==
  Returns({Bool(TRUE), Bool(FALSE)}) \cup Resolves({Bool(TRUE), Bool(FALSE)})
    \cup {Fn("throw", "Rejected", Err("boom")), Fn("promise", "Rejected", Str(""))}
ErrorFns == {DefaultErrorFn} \cup Returns({Str("e2")}) \cup Throws
TapFns == Returns({Undefined}) \cup Resolves({Undefined}) \cup Throws \cup Rejects
Transformers == {DefaultTransformer} \cup Returns({Str("log")}) \cup Throws

Sources == {"of", "fail", "fromPromise"}
Combinators == {"map", "flatMap", "recover", "orElse", "filter", "tap", "log"}

FnsOf(kind) ==
  CASE kind = "map" -> MapFns
    [] kind = "flatMap" -> FlatMapFns
    [] kind = "recover" -> RecoverFns
    [] kind = "orElse" -> Alternatives
    [] kind = "filter" -> Predicates
    [] kind = "tap" -> TapFns
    [] kind = "log" -> Transformers

\* Only filter takes a second function.
ErrorFnsOf(kind) == IF kind = "filter" THEN ErrorFns ELSE {DefaultErrorFn}

\* The reaction a combinator attaches with `this.value.then(...)`.
reaction(kind, either, fn, errorFn) ==
  CASE kind = "map" -> map(either, fn)
    [] kind = "flatMap" -> flatMap(either, fn)
    [] kind = "recover" -> recover(either, fn)
    [] kind = "orElse" -> orElse(either, fn)
    [] kind = "filter" -> filter(either, fn, errorFn)
    [] kind = "tap" -> tap(either, fn)
    [] kind = "log" -> log(either, fn)

\* promise.then(onFulfilled): a rejection of the receiver passes through and
\* onFulfilled does not run.
then(p, kind, fn, errorFn) ==
  IF p.tag = "Rejected" THEN Step(p, 0) ELSE reaction(kind, p, fn, errorFn)

\* What a Monad was built from, before any function has been called: the
\* error argument of of / fail, or nothing.
Argument(error) == Fn("argument", "none", error)

\* new Monad(value): the constructor stores the promise.  arg keeps what the
\* Monad was built from: the error passed to of / fail, and for a
\* combinator what its function did when the reaction called it; errorFn
\* keeps the same for the errorFn of a filter.
Monad(kind, parent, arg, st) ==
  [kind |-> kind, parent |-> parent, arg |-> arg,
   errorFn |-> Argument(Undefined), st |-> st, runs |-> 0, calls |-> 0]

\* A yield that evaluates the reaction again instead of returning the stored
\* promise; the user function need not behave as it did the first time.
yieldRecomputing(m) ==
  IF monads[m].kind \in Combinators
  THEN then(monads[monads[m].parent].st, monads[m].kind,
            Fn("throw", "Rejected", Err("boom")), DefaultErrorFn).out
  ELSE monads[m].st

\* Monad.yield: returns the stored promise.
yield(m) == monads[m].st

\* A toPromise that resolves to whatever the Either holds.
toPromiseResolving(m) == Settled("Resolved", monads[m].st.val)

\* Monad.toPromise: what the returned promise settles to.
toPromise(m) ==
  IF monads[m].st.tag = "Success"
  THEN Settled("Resolved", monads[m].st.val)
  ELSE Rejected(monads[m].st.val)

\* One terminal evaluation.
Eval(m, via, out) == [m |-> m, via |-> via, out |-> out]

ChainInit ==
  /\ monads = <<>>
  /\ evals = EmptyBag

\* A run starts from one source; every other Monad derives from it.
Of ==
  /\ monads = <<>>
  /\ \E value \in Values, error \in Errors \cup {Undefined} :
       monads' = Append(monads, Monad("of", 0, Argument(error), of(value, error)))
  /\ UNCHANGED <<evals, matchVars, zipVars, retryVars, timeoutVars, moreVars>>

Fail ==
  /\ monads = <<>>
  /\ \E error \in Errors :
       monads' = Append(monads, Monad("fail", 0, Argument(error), fail(error)))
  /\ UNCHANGED <<evals, matchVars, zipVars, retryVars, timeoutVars, moreVars>>

FromPromise ==
  /\ monads = <<>>
  /\ monads' = Append(monads, Monad("fromPromise", 0, Argument(Undefined), Pending))
  /\ UNCHANGED <<evals, matchVars, zipVars, retryVars, timeoutVars, moreVars>>

\* The promise handed to fromPromise settles.
PromiseSettles ==
  /\ \E m \in DOMAIN monads :
       /\ monads[m].kind = "fromPromise"
       /\ monads[m].st = Pending
       /\ \E p \in {Settled("Success", v) : v \in Values}
                     \cup {Rejected(e) : e \in Errors} :
            monads' = [monads EXCEPT ![m].st = fromPromise(p)]
  /\ UNCHANGED <<evals, matchVars, zipVars, retryVars, timeoutVars, moreVars>>

\* A combinator is called on Monad p: a new Monad whose promise is pending
\* until the reaction has run.
Derive(kind) ==
  /\ Len(monads) < MaxMonads
  /\ \E p \in DOMAIN monads :
       monads' = Append(monads, Monad(kind, p, Argument(Undefined), Pending))
  /\ UNCHANGED <<evals, matchVars, zipVars, retryVars, timeoutVars, moreVars>>

Map == /\ Derive("map")
FlatMap == /\ Derive("flatMap")
Recover == /\ Derive("recover")
OrElse == /\ Derive("orElse")
Filter == /\ Derive("filter")
Tap == /\ Derive("tap")
Log == /\ Derive("log")

\* The promise of the receiver has settled: the reaction of Monad m runs
\* (a promise runs each reaction once) and settles the promise of m.
React ==
  /\ \E m \in DOMAIN monads :
       /\ monads[m].kind \in Combinators
       /\ monads[m].st = Pending
       /\ monads[monads[m].parent].st # Pending
       /\ \E fn \in FnsOf(monads[m].kind), errorFn \in ErrorFnsOf(monads[m].kind) :
            LET r == then(monads[monads[m].parent].st, monads[m].kind, fn, errorFn)
            IN monads' = [monads EXCEPT ![m].st = r.out,
                                        ![m].arg = IF r.calls > 0 \/ fn.how = "given"
                                                   THEN fn ELSE @,
                                        ![m].errorFn =
                                          IF /\ monads[m].kind = "filter"
                                             /\ r.out # monads[monads[m].parent].st
                                          THEN errorFn ELSE @,
                                        ![m].runs = @ + 1,
                                        ![m].calls = @ + r.calls]
  /\ UNCHANGED <<evals, matchVars, zipVars, retryVars, timeoutVars, moreVars>>

\* `await m.yield()` completes.
Yield ==
  /\ BagCardinality(evals) < MaxEvals
  /\ \E m \in DOMAIN monads :
       /\ monads[m].st # Pending
       /\ evals' = evals (+) SetToBag({Eval(m, "yield", yield(m))})
  /\ UNCHANGED <<monads, matchVars, zipVars, retryVars, timeoutVars, moreVars>>

\* `m.toPromise()` settles.
ToPromise ==
  /\ BagCardinality(evals) < MaxEvals
  /\ \E m \in DOMAIN monads :
       /\ monads[m].st # Pending
       /\ evals' = evals (+) SetToBag({Eval(m, "toPromise", toPromise(m))})
  /\ UNCHANGED <<monads, matchVars, zipVars, retryVars, timeoutVars, moreVars>>

\* ========================================================================
\* Monad.match
\* ========================================================================

\* An options field holds "true", "false" or "undefined"; mode holds "FIRST",
\* "EVERY" or "undefined".  given is FALSE when the argument is omitted.
Options(given, continueIfNoMatch, continueOnError, mode) ==
  [given |-> given, continueIfNoMatch |-> continueIfNoMatch,
   continueOnError |-> continueOnError, mode |-> mode]

\* The default value of the parameter `options`.
DefaultMatchOptions == Options(TRUE, "false", "false", "FIRST")

\* A default parameter value replaces the whole argument, and only when the
\* argument is omitted.
matchOptions(arg) == IF arg.given THEN arg ELSE DefaultMatchOptions

\* `options.mode === MatchMode.FIRST`
modeIsFirst(options) == options.mode = "FIRST"

\* Truthiness of an options field.
Flag(field) == field = "true"

\* A match that keeps looping after an action completed, whatever the mode.
actionCompletedNeverReturns(either, actionResult, options) ==
  [return |-> FALSE, out |-> either]

\* The try block after the action completed: FIRST mode returns its result.
actionCompleted(either, actionResult, options) ==
  IF modeIsFirst(options)
  THEN [return |-> TRUE, out |-> Success(actionResult)]
  ELSE [return |-> FALSE, out |-> either]

\* A catch block that wraps the thrown value as it is.
actionThrewUncoerced(either, error, options) ==
  IF Flag(options.continueOnError)
  THEN [return |-> TRUE, out |-> either]
  ELSE [return |-> TRUE, out |-> Failure(error)]

\* The catch block around the awaited action.
actionThrew(either, error, options) ==
  IF Flag(options.continueOnError)
  THEN [return |-> TRUE, out |-> either]
  ELSE [return |-> TRUE, out |-> Failure(Coerce(error))]

\* The code after the loop with its test of continueIfNoMatch dropped.
afterLoopIgnoringOption(either, matched, options) ==
  IF ~matched THEN Failure(Str("No conditions matched")) ELSE either

\* The code after the loop.
afterLoop(either, matched, options) ==
  IF ~matched /\ ~Flag(options.continueIfNoMatch)
  THEN Failure(Str("No conditions matched"))
  ELSE either

MaxConds == 2       \* conditions passed to one match call

MatchPredicates ==
  Returns({Bool(TRUE), Bool(FALSE)}) \cup {Fn("throw", "Rejected", Err("boom"))}
MatchActions ==
  {Fn("value", "Success", Str("b")), Fn("promise", "Success", Str("c")),
   Fn("throw", "Rejected", Err("boom")), Fn("promise", "Rejected", Str(""))}
MatchConditions ==
  {[condition |-> c, action |-> a] : c \in MatchPredicates, a \in MatchActions}
MatchArguments ==
  {Options(FALSE, "undefined", "undefined", "undefined")}
    \cup {Options(TRUE, n, e, mode) :
            n \in {"true", "false", "undefined"},
            e \in {"true", "false", "undefined"},
            mode \in {"FIRST", "EVERY", "undefined"}}
MatchInputs == {Success(v) : v \in Values} \cup {Failure(e) : e \in Errors}

MatchInit ==
  /\ mIn = Pending
  /\ mConds = <<>>
  /\ mArg = Options(FALSE, "undefined", "undefined", "undefined")
  /\ mPc = "idle"
  /\ mI = 1
  /\ mMatched = FALSE
  /\ mPredCalls = <<>>
  /\ mActCalls = <<>>
  /\ mOut = Pending

\* match(conditions, options) is called: the reaction is attached.
Match ==
  /\ mPc = "idle"
  /\ \E n \in 0..MaxConds :
       \E conditions \in [1..n -> MatchConditions] : mConds' = conditions
  /\ \E arg \in MatchArguments : mArg' = arg
  /\ mPc' = "called"
  /\ UNCHANGED <<mIn, mI, mMatched, mPredCalls, mActCalls, mOut, chainVars, zipVars, retryVars, timeoutVars, moreVars>>

\* The receiver settles and the reaction starts: a Failure is returned as it
\* is, a Success enters the loop.
MatchReceiverSettles ==
  /\ mPc = "called"
  /\ \E either \in MatchInputs :
       /\ mIn' = either
       /\ IF isSuccess(either)
          THEN mPc' = "loop" /\ UNCHANGED mOut
          ELSE mPc' = "done" /\ mOut' = either
  /\ UNCHANGED <<mConds, mArg, mI, mMatched, mPredCalls, mActCalls, chainVars, zipVars, retryVars, timeoutVars, moreVars>>

\* One iteration of the for loop: the predicate is called; if it holds, the
\* action is called and awaited.  A predicate that throws is not caught.
MatchExamine ==
  /\ mPc = "loop"
  /\ mI <= Len(mConds)
  /\ LET cond == mConds[mI]
         options == matchOptions(mArg)
         r == IF Threw(cond.action)
              THEN actionThrew(mIn, cond.action.val, options)
              ELSE actionCompleted(mIn, cond.action.val, options)
     IN /\ mPredCalls' = Append(mPredCalls, mI)
        /\ IF Threw(cond.condition)
           THEN /\ mOut' = Rejected(cond.condition.val)
                /\ mPc' = "done"
                /\ UNCHANGED <<mI, mMatched, mActCalls>>
           ELSE IF ~Truthy(cond.condition.val)
           THEN /\ mI' = mI + 1
                /\ UNCHANGED <<mOut, mPc, mMatched, mActCalls>>
           ELSE /\ mMatched' = TRUE
                /\ mActCalls' = Append(mActCalls, mI)
                /\ IF r.return
                   THEN mOut' = r.out /\ mPc' = "done" /\ UNCHANGED mI
                   ELSE mI' = mI + 1 /\ UNCHANGED <<mOut, mPc>>
  /\ UNCHANGED <<mIn, mConds, mArg, chainVars, zipVars, retryVars, timeoutVars, moreVars>>

\* The loop has examined every condition.
MatchReturn ==
  /\ mPc = "loop"
  /\ mI > Len(mConds)
  /\ mOut' = afterLoop(mIn, mMatched, matchOptions(mArg))
  /\ mPc' = "done"
  /\ UNCHANGED <<mIn, mConds, mArg, mI, mMatched, mPredCalls, mActCalls, chainVars, zipVars, retryVars, timeoutVars, moreVars>>

NextMatch == Match \/ MatchReceiverSettles \/ MatchExamine \/ MatchReturn


\* ========================================================================
\* Util.zip
\* ========================================================================
MaxChildren == 2    \* entries passed to one zip call

\* The aggregate's promise: pending, fulfilled with Success(value) where
\* value maps keys to values, fulfilled with Failure(error), or rejected.
ZipSettled(tag, error, value) == [tag |-> tag, error |-> error, value |-> value]
EmptyObject == [k \in {} |-> Undefined]
ZipPending == ZipSettled("Pending", Undefined, EmptyObject)

\* `m${i}`
PositionalKey(i) == "m" \o ToString(i)

\* `monadArray[i].name || `m${i}``
key(name, i) == IF Truthy(name) THEN name.s ELSE PositionalKey(i)

\* acc[key] = value
Assign(acc, k, value) ==
  [x \in DOMAIN acc \cup {k} |-> IF x = k THEN value ELSE acc[x]]

\* results.reduce(...) from index i on (i counts from 0): the accumulator and
\* the closure variable `error`, which starts as null.
RECURSIVE reduce(_, _, _, _)
reduce(kids, i, acc, error) ==
  IF i >= Len(kids)
  THEN [acc |-> acc, error |-> error]
  ELSE LET result == kids[i + 1].st
       IN IF isSuccess(result)
          THEN reduce(kids, i + 1, Assign(acc, key(kids[i + 1].name, i), result.val), error)
          ELSE IF error = Null
               THEN reduce(kids, i + 1, acc, result.val)
               ELSE reduce(kids, i + 1, acc, error)

\* The reaction to Promise.all: `if (error)` decides between Failure and
\* Success.
zip(kids) ==
  LET r == reduce(kids, 0, EmptyObject, Null)
  IN IF Truthy(r.error)
     THEN ZipSettled("Failure", r.error, EmptyObject)
     ELSE ZipSettled("Success", Undefined, r.acc)

\* The rest parameter `...monads` of a call: zip(entries) passes one array,
\* zip(...entries) passes each entry as an argument of its own.
Arguments(form, entries) ==
  IF form = "array"
  THEN <<[isArray |-> TRUE, items |-> entries]>>
  ELSE [i \in DOMAIN entries |-> [isArray |-> FALSE, items |-> <<entries[i]>>]]

\* `Array.isArray(monads[0]) ? [...monads[0]] : monads`
monadArray(args) ==
  IF args # <<>> /\ args[1].isArray
  THEN args[1].items
  ELSE [i \in DOMAIN args |-> args[i].items[1]]

ZipNames == {Undefined, Str(""), Str("x"), Str("m1")}
ZipValues == {Str("a"), Str("b")}
ZipErrors == {Str("e1"), Str("e2"), Str(""), Null}
ZipOutcomes ==
  {Success(v) : v \in ZipValues} \cup {Failure(e) : e \in ZipErrors}
    \cup {Rejected(Err("boom"))}

ZipInit ==
  /\ zForm = "variadic"
  /\ zKids = <<>>
  /\ zPc = "idle"
  /\ zOutOfOrder = FALSE
  /\ zOut = ZipPending

\* zip(entries) is called: Promise.all waits for the promise of every child.
Zip ==
  /\ zPc = "idle"
  /\ \E form \in {"array", "variadic"}, n \in 0..MaxChildren :
       \E names \in [1..n -> ZipNames] :
         /\ zForm' = form
         /\ zKids' = monadArray(Arguments(form,
                        [i \in 1..n |-> [name |-> names[i], st |-> Pending]]))
  /\ zPc' = "joining"
  /\ UNCHANGED <<zOutOfOrder, zOut, chainVars, matchVars, retryVars, timeoutVars, moreVars>>

\* The promise of one child settles; the children settle in any order.
ZipChildSettles ==
  /\ zPc \in {"joining", "done"}
  /\ \E i \in DOMAIN zKids :
       /\ zKids[i].st = Pending
       /\ \E outcome \in ZipOutcomes : zKids' = [zKids EXCEPT ![i].st = outcome]
       /\ zOutOfOrder' = (zOutOfOrder \/ \E j \in 1..(i - 1) : zKids[j].st = Pending)
  /\ UNCHANGED <<zForm, zPc, zOut, chainVars, matchVars, retryVars, timeoutVars, moreVars>>

\* A join that does not wait for the remaining children once a child has
\* failed.
ZipJoinFailFast ==
  /\ zPc = "joining"
  /\ \/ \A i \in DOMAIN zKids : IsEither(zKids[i].st)
     \/ \E i \in DOMAIN zKids : zKids[i].st.tag = "Failure"
  /\ zOut' = zip([i \in DOMAIN zKids |->
                   IF zKids[i].st = Pending
                   THEN [zKids[i] EXCEPT !.st = Failure(Null)]
                   ELSE zKids[i]])
  /\ zPc' = "done"
  /\ UNCHANGED <<zForm, zKids, zOutOfOrder, chainVars, matchVars, retryVars, timeoutVars, moreVars>>

\* Every child's promise is fulfilled: Promise.all fulfils and the reaction
\* combines the results.
ZipJoin ==
  /\ zPc = "joining"
  /\ \A i \in DOMAIN zKids : IsEither(zKids[i].st)
  /\ zOut' = zip(zKids)
  /\ zPc' = "done"
  /\ UNCHANGED <<zForm, zKids, zOutOfOrder, chainVars, matchVars, retryVars, timeoutVars, moreVars>>

\* A child's promise is rejected: Promise.all rejects at once and the
\* reaction does not run.
ZipRejects ==
  /\ zPc = "joining"
  /\ \E i \in DOMAIN zKids :
       /\ zKids[i].st.tag = "Rejected"
       /\ zOut' = ZipSettled("Rejected", zKids[i].st.val, EmptyObject)
  /\ zPc' = "done"
  /\ UNCHANGED <<zForm, zKids, zOutOfOrder, chainVars, matchVars, retryVars, timeoutVars, moreVars>>

NextZip == Zip \/ ZipChildSettles \/ ZipJoin \/ ZipRejects

\* ========================================================================
\* Util.retry
\* ========================================================================
MaxTimes == 2       \* the largest options.times

\* The options: onError is "none" (omitted), "returns" or "throws";
\* backoffFactor is 0 when omitted.
RetryOptions ==
  [times : 0..MaxTimes, delay : {10}, backoffFactor : {0, 1, 2},
   onError : {"none", "returns", "throws"}]

\* A retry that waits the same delay every time.
backoffFactorIgnored(options) == 1

\* The destructuring default `backoffFactor = 1`.
backoffFactor(options) ==
  IF options.backoffFactor = 0 THEN 1 ELSE options.backoffFactor

\* A retry that gives up one attempt late.
stopsOneLate(result, retriesLeft) == isSuccess(result) \/ retriesLeft < 0

\* `result.isSuccess() || retriesLeft <= 0`
stops(result, retriesLeft) == isSuccess(result) \/ retriesLeft <= 0

\* A retry that reports every error to onError, falsy or not.
callsOnErrorAlways(options, result) == options.onError # "none"

\* `onError && result.error`
callsOnError(options, result) == options.onError # "none" /\ Truthy(result.val)

AttemptOutcomes ==
  {Success(v) : v \in Values}
    \cup {Failure(e) : e \in {Str("e1"), Str("e2"), Str("")}}
    \cup {Rejected(Err("boom"))}

RetryInit ==
  /\ rOpt = [times |-> 0, delay |-> 10, backoffFactor |-> 0, onError |-> "none"]
  /\ rPc = "idle"
  /\ rRetriesLeft = 0
  /\ rCurrentDelay = 0
  /\ rCalls = 0
  /\ rAttempts = <<>>
  /\ rOnError = <<>>
  /\ rWaits = <<>>
  /\ rOut = Pending

\* The start of retryOperation(retriesLeft, currentDelay): operationFn is
\* called; if it throws, the async function rejects.
retryOperation(retriesLeft, currentDelay) ==
  /\ rRetriesLeft' = retriesLeft
  /\ rCurrentDelay' = currentDelay
  /\ rCalls' = rCalls + 1
  /\ \/ rPc' = "attempt" /\ UNCHANGED rOut
     \/ rPc' = "done" /\ rOut' = Rejected(Err("boom"))

\* retry(operationFn, options) is called; the first attempt starts at once.
Retry ==
  /\ rPc = "idle"
  /\ \E options \in RetryOptions :
       /\ rOpt' = options
       /\ retryOperation(options.times, options.delay)
  /\ UNCHANGED <<rAttempts, rOnError, rWaits, chainVars, matchVars, zipVars, timeoutVars, moreVars>>

\* The awaited attempt settles: retryOperation returns its result, or calls
\* onError and starts the timer of the delay.
RetryAttemptSettles ==
  /\ rPc = "attempt"
  /\ \E result \in AttemptOutcomes :
       /\ rAttempts' = Append(rAttempts, result)
       /\ IF result.tag = "Rejected"
          THEN rOut' = result /\ rPc' = "done" /\ UNCHANGED rOnError
          ELSE IF stops(result, rRetriesLeft)
          THEN rOut' = result /\ rPc' = "done" /\ UNCHANGED rOnError
          ELSE IF callsOnError(rOpt, result)
          THEN /\ rOnError' = Append(rOnError,
                    [error |-> result.val, attempt |-> rOpt.times - rRetriesLeft])
               /\ IF rOpt.onError = "throws"
                  THEN rOut' = Rejected(Err("boom")) /\ rPc' = "done"
                  ELSE rPc' = "delay" /\ UNCHANGED rOut
          ELSE rPc' = "delay" /\ UNCHANGED <<rOut, rOnError>>
  /\ UNCHANGED <<rOpt, rRetriesLeft, rCurrentDelay, rCalls, rWaits,
                 chainVars, matchVars, zipVars, timeoutVars, moreVars>>

\* The timer of the delay fires: retryOperation calls itself.
RetryDelayElapses ==
  /\ rPc = "delay"
  /\ rWaits' = Append(rWaits, rCurrentDelay)
  /\ retryOperation(rRetriesLeft - 1, rCurrentDelay * backoffFactor(rOpt))
  /\ UNCHANGED <<rOpt, rAttempts, rOnError, chainVars, matchVars, zipVars, timeoutVars, moreVars>>

NextRetry == Retry \/ RetryAttemptSettles \/ RetryDelayElapses

\* ========================================================================
\* Util.timeout
\* ========================================================================

\* `new DOMException(..., name)`
DOMException(name) == [kind |-> "DOMException", s |-> name]

\* A test that looks for another name than the one an aborted operation
\* fails with.
IsAbortErrorMisnamed(error) == error.kind = "DOMException" /\ error.s = "Abort"

\* `result.error instanceof DOMException && result.error.name === "AbortError"`
IsAbortError(error) == error.kind = "DOMException" /\ error.s = "AbortError"

\* A resolve that lets a later call replace the settled state.
resolveOverwriting(outer, either) == either

\* The resolve function of the promise: only the first call settles it.
resolve(outer, either) == IF outer = Pending THEN either ELSE outer

\* A clearTimeout that leaves the timer armed.
clearTimeoutIgnored(timer) == timer

\* clearTimeout(timer): a timer that has fired is not affected.
clearTimeout(timer) == IF timer = "armed" THEN "cleared" ELSE timer

TimeoutErrors == {Err("timed out"), Str("late"), Str("")}
OperationOutcomes ==
  {Success(v) : v \in {Str("a"), Str("b")}}
    \cup {Failure(e) : e \in {Str("e1"), Str(""), Err("boom"),
                              DOMException("AbortError"),
                              DOMException("NetworkError")}}
    \cup {Rejected(Err("boom"))}

TimeoutInit ==
  /\ tPc = "idle"
  /\ tErr = Undefined
  /\ tOuter = Pending
  /\ tTimer = "none"
  /\ tAborted = FALSE
  /\ tAbortSupported = TRUE
  /\ tOp = Pending
  /\ tEvents = <<>>
  /\ tSeen = <<>>

\* timeout(operation, duration, timeoutError) is called: the executor arms
\* the timer and calls operation(signal).  If operation throws, the promise
\* constructor rejects the outer promise and the timer stays armed.
Timeout ==
  /\ tPc = "idle"
  /\ \E timeoutError \in TimeoutErrors : tErr' = timeoutError
  /\ tPc' = "running"
  /\ tTimer' = "armed"
  /\ tAbortSupported' = TRUE
  /\ \/ UNCHANGED <<tOp, tOuter>>
     \/ tOp' = Settled("Thrown", Err("boom")) /\ tOuter' = Rejected(Err("boom"))
  /\ UNCHANGED <<tAborted, tEvents, tSeen, chainVars, matchVars, zipVars, retryVars, moreVars>>

\* The operation's promise settles and the reaction attached to it runs
\* before any timer can fire.
TimeoutOperationSettles ==
  /\ tPc = "running"
  /\ tOp = Pending
  /\ \E result \in OperationOutcomes :
       /\ tOp' = result
       /\ IF result.tag = "Rejected"
          THEN /\ tTimer' = clearTimeout(tTimer)
               /\ tOuter' = resolve(tOuter, Failure(result.val))
               /\ UNCHANGED tAbortSupported
          ELSE IF isSuccess(result)
          THEN /\ tTimer' = clearTimeout(tTimer)
               /\ tOuter' = resolve(tOuter, result)
               /\ UNCHANGED tAbortSupported
          ELSE IF IsAbortError(result.val)
          THEN /\ tAbortSupported' = FALSE
               /\ UNCHANGED <<tTimer, tOuter>>
          ELSE /\ tTimer' = clearTimeout(tTimer)
               /\ tOuter' = resolve(tOuter, result)
               /\ UNCHANGED tAbortSupported
  /\ tEvents' = Append(tEvents, "operation")
  /\ UNCHANGED <<tPc, tErr, tAborted, tSeen, chainVars, matchVars, zipVars, retryVars, moreVars>>

\* A timer callback that aborts the signal and leaves the outer promise to
\* the operation.
TimeoutTimerOnlyAborts ==
  /\ tPc = "running"
  /\ tTimer = "armed"
  /\ tTimer' = "fired"
  /\ tAborted' = (tAborted \/ tAbortSupported)
  /\ tEvents' = Append(tEvents, "timer")
  /\ UNCHANGED <<tPc, tErr, tOuter, tAbortSupported, tOp, tSeen,
                 chainVars, matchVars, zipVars, retryVars, moreVars>>

\* The timer fires: the signal is aborted unless the operation already
\* failed with an AbortError, and the outer promise is resolved.
TimeoutTimerFires ==
  /\ tPc = "running"
  /\ tTimer = "armed"
  /\ tTimer' = "fired"
  /\ tAborted' = (tAborted \/ tAbortSupported)
  /\ tOuter' = resolve(tOuter, Failure(tErr))
  /\ tEvents' = Append(tEvents, "timer")
  /\ UNCHANGED <<tPc, tErr, tAbortSupported, tOp, tSeen,
                 chainVars, matchVars, zipVars, retryVars, moreVars>>

\* `await timeout(...).yield()` completes.
TimeoutYield ==
  /\ tPc = "running"
  /\ tOuter # Pending
  /\ Len(tSeen) < MaxEvals
  /\ tSeen' = Append(tSeen, tOuter)
  /\ UNCHANGED <<tPc, tErr, tOuter, tTimer, tAborted, tAbortSupported, tOp,
                 tEvents, chainVars, matchVars, zipVars, retryVars, moreVars>>

NextTimeout ==
  Timeout \/ TimeoutOperationSettles \/ TimeoutTimerFires \/ TimeoutYield

\* ========================================================================
\* Monad.fold
\* ========================================================================

\* A field of an object literal that is not there.
Absent == [kind |-> "absent", s |-> ""]

\* A promise as a value (a callback may return one; fold does not await it).
PromiseObject(tag) == [kind |-> "Promise", s |-> tag]

\* `{ result }` and `{ error }`
FoldResult(result, error) == [result |-> result, error |-> error]

\* What a call of a callback evaluates to when it does not throw.
ReturnValue(fn) == IF fn.how = "promise" THEN PromiseObject(fn.tag) ELSE fn.val

\* The callback fold calls for an Either.
foldCallback(either) == IF isSuccess(either) THEN "onSuccess" ELSE "onFailure"

\* A fold that awaits and calls outside any try block.
foldUnguarded(p, callbacks) ==
  IF p.tag = "Rejected"
  THEN Rejected(p.val)
  ELSE LET fn == callbacks[foldCallback(p)]
       IN IF fn.how = "throw"
          THEN Rejected(fn.val)
          ELSE Settled("Resolved", FoldResult(ReturnValue(fn), Absent))

\* The body of fold once the promise of the receiver has settled to p: the
\* await and the call are inside one try block.
fold(p, callbacks) ==
  IF p.tag = "Rejected"
  THEN Settled("Resolved", FoldResult(Absent, p.val))
  ELSE LET fn == callbacks[foldCallback(p)]
       IN IF fn.how = "throw"
          THEN Settled("Resolved", FoldResult(Absent, fn.val))
          ELSE Settled("Resolved", FoldResult(ReturnValue(fn), Absent))

FoldFns ==
  Returns({Str("b"), Undefined}) \cup Throws
    \cup {Fn("promise", "Rejected", Err("boom"))}
FoldInputs ==
  {Success(v) : v \in Values} \cup {Failure(e) : e \in Errors}
    \cup {Rejected(Err("boom"))}

FoldInit ==
  /\ fPc = "idle"
  /\ fCallbacks = [onSuccess |-> Fn("value", "Success", Undefined),
                   onFailure |-> Fn("value", "Success", Undefined)]
  /\ fIn = Pending
  /\ fInvoked = <<>>
  /\ fOut = Pending

\* fold(onSuccess, onFailure) is called: the async function runs up to its
\* await.
Fold ==
  /\ fPc = "idle"
  /\ \E onSuccess \in FoldFns, onFailure \in FoldFns :
       fCallbacks' = [onSuccess |-> onSuccess, onFailure |-> onFailure]
  /\ fPc' = "awaiting"
  /\ UNCHANGED <<fIn, fInvoked, fOut, chainVars, matchVars, zipVars, retryVars,
                 timeoutVars, handleVars, streamVars>>

\* The promise of the receiver settles and fold runs to its return.
FoldReceiverSettles ==
  /\ fPc = "awaiting"
  /\ \E p \in FoldInputs :
       /\ fIn' = p
       /\ fInvoked' = IF IsEither(p) THEN <<foldCallback(p)>> ELSE <<>>
       /\ fOut' = fold(p, fCallbacks)
  /\ fPc' = "done"
  /\ UNCHANGED <<fCallbacks, chainVars, matchVars, zipVars, retryVars,
                 timeoutVars, handleVars, streamVars>>

NextFold == Fold \/ FoldReceiverSettles

\* ========================================================================
\* Monad.handleErrors, handleSpecificErrors, handleHttpErrors
\* ========================================================================

\* `new HttpError(statusCode, message)`, `new BadRequestError(message)` and
\* the object literal `{ statusCode, message }`.
HttpError(statusCode, message) ==
  [kind |-> "HttpError", s |-> message, statusCode |-> statusCode]
BadRequestError(message) == [kind |-> "BadRequestError", s |-> message]
ObjectLiteral(statusCode, message) ==
  [kind |-> "object", s |-> message, statusCode |-> statusCode]

\* A primitive or null: `x.prop` boxes a primitive, `prop in x` does not.
IsObject(x) == x.kind \notin {"string", "boolean", "undefined", "null"}
IsNullish(x) == x.kind \in {"undefined", "null"}

\* `error.hasOwnProperty("statusCode")` of an error that is not nullish.
hasOwnStatusCode(error) == error.kind \in {"HttpError", "object"}

\* `"message" in error` of an object.
hasMessage(error) == error.kind \in {"Error", "HttpError", "BadRequestError", "object"}

\* `error instanceof type`, type one of the constructors Error, HttpError
\* and BadRequestError (both extend Error).
instanceof(error, type) ==
  CASE type = "Error" -> error.kind \in {"Error", "HttpError", "BadRequestError"}
    [] OTHER -> error.kind = type

\* One dimension of an ErrorCriteria: the key is absent, or holds an array.
NoDimension == [present |-> FALSE, of |-> {}]
Dimension(array) == [present |-> TRUE, of |-> array]
ErrorCriteria(statusCodes, messages, types) ==
  [statusCodes |-> statusCodes, messages |-> messages, types |-> types]

\* The three consts of handleErrors.  A present array is truthy even when
\* it is empty.
statusMatch(criteria, error) ==
  \/ ~criteria.statusCodes.present
  \/ (hasOwnStatusCode(error) /\ error.statusCode \in criteria.statusCodes.of)
messageMatch(criteria, error) ==
  \/ ~criteria.messages.present
  \/ (hasMessage(error) /\ error.s \in criteria.messages.of)
typeMatch(criteria, error) ==
  \/ ~criteria.types.present
  \/ \E type \in criteria.types.of : instanceof(error, type)

\* Evaluating the three consts throws a TypeError: hasOwnProperty is read
\* from null or undefined, or the right operand of `in` is not an object.
TypeError == [kind |-> "TypeError", s |-> ""]
matchThrows(criteria, error) ==
  \/ (criteria.statusCodes.present /\ IsNullish(error))
  \/ (criteria.messages.present /\ ~IsObject(error))

\* `handler(error).yield()`: the handler is called outside any try block.
handlerYield(handler) ==
  IF handler.how = "throw"
  THEN Step(Rejected(handler.val), 1)
  ELSE Step(Settled(handler.tag, handler.val), 1)

\* The reaction of handleErrors to the receiver's promise settled to p.
handleErrors(p, criteria, handler) ==
  IF ~IsEither(p) \/ isSuccess(p)
  THEN Step(p, 0)
  ELSE IF matchThrows(criteria, p.val)
       THEN Step(Rejected(TypeError), 0)
       ELSE IF /\ statusMatch(criteria, p.val)
               /\ messageMatch(criteria, p.val)
               /\ typeMatch(criteria, p.val)
            THEN handlerYield(handler)
            ELSE Step(p, 0)

\* The reaction of handleSpecificErrors(errorTypes, handler).
handleSpecificErrors(p, errorTypes, handler) ==
  IF /\ IsEither(p)
     /\ ~isSuccess(p)
     /\ \E type \in errorTypes : instanceof(p.val, type)
  THEN handlerYield(handler)
  ELSE Step(p, 0)

\* The reaction of handleHttpErrors(statusCodes, handler).
handleHttpErrors(p, statusCodes, handler) ==
  IF /\ IsEither(p)
     /\ ~isSuccess(p)
     /\ instanceof(p.val, "HttpError")
     /\ p.val.statusCode \in statusCodes
  THEN handlerYield(handler)
  ELSE Step(p, 0)

StatusCodes == {{}, {404}}
Messages == {{}, {"nf"}}
Types == {{}, {"HttpError"}, {"Error"}}
Handlers ==
  {Fn("monad", "Success", Str("b")), Fn("monad", "Failure", Err("boom")),
   Fn("throw", "Rejected", Err("boom"))}
HandleInputs ==
  {Success(Str("a")), Rejected(Err("boom"))}
    \cup {Failure(e) : e \in {Str("nf"), Null, Err("nf"), BadRequestError("nf"),
                              HttpError(404, "nf"), HttpError(500, "nf"),
                              ObjectLiteral(404, "nf")}}

HandleInit ==
  /\ hPc = "idle"
  /\ hVia = "none"
  /\ hCriteria = ErrorCriteria(NoDimension, NoDimension, NoDimension)
  /\ hHandler = Fn("monad", "Success", Str("b"))
  /\ hIn = Pending
  /\ hCalls = 0
  /\ hOut = Pending

\* handleErrors(criteria, handler) is called.
HandleErrors ==
  /\ hPc = "idle"
  /\ \E statusCodes \in {NoDimension} \cup {Dimension(a) : a \in StatusCodes},
        messages \in {NoDimension} \cup {Dimension(a) : a \in Messages},
        types \in {NoDimension} \cup {Dimension(a) : a \in Types} :
       hCriteria' = ErrorCriteria(statusCodes, messages, types)
  /\ hHandler' \in Handlers
  /\ hVia' = "handleErrors"
  /\ hPc' = "derived"
  /\ UNCHANGED <<hIn, hCalls, hOut, chainVars, matchVars, zipVars, retryVars,
                 timeoutVars, foldVars, streamVars>>

\* handleSpecificErrors(errorTypes, handler) is called: hCriteria records
\* the criteria with the same types and no other dimension.
HandleSpecificErrors ==
  /\ hPc = "idle"
  /\ \E errorTypes \in Types :
       hCriteria' = ErrorCriteria(NoDimension, NoDimension, Dimension(errorTypes))
  /\ hHandler' \in Handlers
  /\ hVia' = "handleSpecificErrors"
  /\ hPc' = "derived"
  /\ UNCHANGED <<hIn, hCalls, hOut, chainVars, matchVars, zipVars, retryVars,
                 timeoutVars, foldVars, streamVars>>

\* handleHttpErrors(statusCodes, handler) is called: hCriteria records the
\* criteria with the same status codes and no other dimension.
HandleHttpErrors ==
  /\ hPc = "idle"
  /\ \E statusCodes \in StatusCodes :
       hCriteria' = ErrorCriteria(Dimension(statusCodes), NoDimension, NoDimension)
  /\ hHandler' \in Handlers
  /\ hVia' = "handleHttpErrors"
  /\ hPc' = "derived"
  /\ UNCHANGED <<hIn, hCalls, hOut, chainVars, matchVars, zipVars, retryVars,
                 timeoutVars, foldVars, streamVars>>

\* The promise of the receiver settles and the reaction runs.
HandleReceiverSettles ==
  /\ hPc = "derived"
  /\ \E p \in HandleInputs :
       LET r == CASE hVia = "handleErrors" -> handleErrors(p, hCriteria, hHandler)
                  [] hVia = "handleSpecificErrors" ->
                       handleSpecificErrors(p, hCriteria.types.of, hHandler)
                  [] OTHER ->
                       handleHttpErrors(p, hCriteria.statusCodes.of, hHandler)
       IN /\ hIn' = p
          /\ hOut' = r.out
          /\ hCalls' = r.calls
  /\ hPc' = "done"
  /\ UNCHANGED <<hVia, hCriteria, hHandler, chainVars, matchVars, zipVars,
                 retryVars, timeoutVars, foldVars, streamVars>>

NextHandle ==
  \/ HandleErrors \/ HandleSpecificErrors \/ HandleHttpErrors
  \/ HandleReceiverSettles

\* ========================================================================
\* EventStream
\* ========================================================================
MaxSubs == 3        \* subscribe calls on one stream
MaxEmits == 2       \* emit calls on one stream

\* The listener functions.  "once" calls the function its subscribe call
\* returned when it is invoked; it is subscribed at most once.
Listeners == {"f", "g", "once"}
UnsubscribesItself(listener) == listener = "once"

\* `new EventMonad(event, error)`
EventMonad(event, error) ==
  IF Truthy(error) THEN Failure(error) ELSE Success(event)

\* `this.listeners.indexOf(listener)`, counted from 1; 0 when not found.
indexOf(array, listener) ==
  IF \E i \in DOMAIN array : array[i] = listener
  THEN CHOOSE i \in DOMAIN array :
         array[i] = listener /\ \A j \in 1..(i - 1) : array[j] # listener
  ELSE 0

\* `array.splice(index, 1)`
splice(array, index) ==
  [i \in 1..(Len(array) - 1) |-> IF i < index THEN array[i] ELSE array[i + 1]]

\* The function subscribe returns.
unsubscribe(array, listener) ==
  IF indexOf(array, listener) # 0
  THEN splice(array, indexOf(array, listener))
  ELSE array

\* The listeners of the subscriptions that have not been unsubscribed, in
\* subscription order.
Subscribed(subs) ==
  LET active == SelectSeq(subs, LAMBDA sub : ~sub.unsubscribed)
  IN [i \in DOMAIN active |-> active[i].listener]

\* The first subscription of a listener.
SubscriptionOf(subs, listener) ==
  CHOOSE i \in DOMAIN subs :
    subs[i].listener = listener /\ \A j \in 1..(i - 1) : subs[j].listener # listener

StreamInit ==
  /\ sListeners = <<>>
  /\ sSubs = <<>>
  /\ sPc = "idle"
  /\ sEvent = Pending
  /\ sK = 0
  /\ sLen = 0
  /\ sExpected = <<>>
  /\ sDelivered = <<>>
  /\ sEmits = 0

\* subscribe(listener)
Subscribe ==
  /\ sPc = "idle"
  /\ Len(sSubs) < MaxSubs
  /\ \E listener \in Listeners :
       /\ UnsubscribesItself(listener)
            => \A i \in DOMAIN sSubs : sSubs[i].listener # listener
       /\ sListeners' = Append(sListeners, listener)
       /\ sSubs' = Append(sSubs, [listener |-> listener, unsubscribed |-> FALSE])
  /\ UNCHANGED <<sPc, sEvent, sK, sLen, sExpected, sDelivered, sEmits,
                 chainVars, matchVars, zipVars, retryVars, timeoutVars,
                 foldVars, handleVars>>

\* The function the i-th subscribe call returned is called, between emits,
\* for the first time or again.
Unsubscribe ==
  /\ sPc = "idle"
  /\ \E i \in DOMAIN sSubs :
       /\ sListeners' = unsubscribe(sListeners, sSubs[i].listener)
       /\ sSubs' = [sSubs EXCEPT ![i].unsubscribed = TRUE]
  /\ UNCHANGED <<sPc, sEvent, sK, sLen, sExpected, sDelivered, sEmits,
                 chainVars, matchVars, zipVars, retryVars, timeoutVars,
                 foldVars, handleVars>>

\* emit(event, error) is called: the EventMonad is built and forEach starts.
Emit ==
  /\ sPc = "idle"
  /\ sEmits < MaxEmits
  /\ \E event \in Values, error \in {Undefined, Str("e1"), Str("")} :
       sEvent' = EventMonad(event, error)
  /\ sPc' = "emitting"
  /\ sK' = 0
  /\ sLen' = Len(sListeners)
  /\ sExpected' = Subscribed(sSubs)
  /\ sDelivered' = <<>>
  /\ sEmits' = sEmits + 1
  /\ UNCHANGED <<sListeners, sSubs, chainVars, matchVars, zipVars, retryVars,
                 timeoutVars, foldVars, handleVars>>

\* forEach calls the listener at index sK; a listener that unsubscribes
\* itself splices the array while forEach is running.
EmitDeliver ==
  /\ sPc = "emitting"
  /\ sK < sLen /\ sK < Len(sListeners)
  /\ LET listener == sListeners[sK + 1]
     IN /\ sDelivered' = Append(sDelivered, listener)
        /\ IF UnsubscribesItself(listener)
           THEN /\ sListeners' = unsubscribe(sListeners, listener)
                /\ sSubs' = [sSubs EXCEPT
                     ![SubscriptionOf(sSubs, listener)].unsubscribed = TRUE]
           ELSE UNCHANGED <<sListeners, sSubs>>
  /\ sK' = sK + 1
  /\ UNCHANGED <<sPc, sEvent, sLen, sExpected, sEmits, chainVars, matchVars,
                 zipVars, retryVars, timeoutVars, foldVars, handleVars>>

\* forEach has no index left that holds an element: emit returns.
EmitReturn ==
  /\ sPc = "emitting"
  /\ ~(sK < sLen /\ sK < Len(sListeners))
  /\ sPc' = "idle"
  /\ UNCHANGED <<sListeners, sSubs, sEvent, sK, sLen, sExpected, sDelivered,
                 sEmits, chainVars, matchVars, zipVars, retryVars, timeoutVars,
                 foldVars, handleVars>>

NextStream == Subscribe \/ Unsubscribe \/ Emit \/ EmitDeliver \/ EmitReturn

vars == <<chainVars, matchVars, zipVars, retryVars, timeoutVars, moreVars>>

Init ==
  /\ ChainInit
  /\ MatchInit
  /\ ZipInit
  /\ RetryInit
  /\ TimeoutInit
  /\ FoldInit
  /\ HandleInit
  /\ StreamInit

Next ==
  \/ Of \/ Fail \/ FromPromise \/ PromiseSettles
  \/ Map \/ FlatMap \/ Recover \/ OrElse \/ Filter \/ Tap \/ Log
  \/ React \/ Yield \/ ToPromise

Spec == Init /\ [][Next]_vars
SpecMatch == Init /\ [][NextMatch]_vars
SpecZip == Init /\ [][NextZip]_vars
SpecRetry == Init /\ [][NextRetry]_vars
SpecTimeout == Init /\ [][NextTimeout]_vars
SpecFold == Init /\ [][NextFold]_vars
SpecHandle == Init /\ [][NextHandle]_vars
SpecStream == Init /\ [][NextStream]_vars

\* The reaction to a settled Promise.all is a microtask: it runs.
FairSpecZip ==
  /\ SpecZip
  /\ WF_vars(ZipJoin)
  /\ WF_vars(ZipRejects)

\* An armed timer fires after its duration; the operation need not settle.
FairSpecTimeout ==
  /\ SpecTimeout
  /\ WF_vars(TimeoutTimerFires)

\* The event loop runs a settled attempt's continuation and fires a due
\* timer; every attempt is assumed to settle.
FairSpecRetry ==
  /\ SpecRetry
  /\ WF_vars(RetryAttemptSettles)
  /\ WF_vars(RetryDelayElapses)

\* ------------------------------------------------------------------------
\* Properties of Spec
\* ------------------------------------------------------------------------

ShortCircuiting == {"map", "flatMap", "filter", "tap"}

\* C1: every terminal evaluation of a Monad observes the one settled state of
\* its promise (yield the Either itself, toPromise its value or its error),
\* however many evaluations came before, and the reaction that computed it
\* ran once, not once per evaluation.
ExactlyOnceEvaluation ==
  /\ \A e \in BagToSet(evals) :
       LET st == monads[e.m].st
       IN /\ e.via = "yield" => e.out = st
          /\ e.via = "toPromise" =>
               /\ e.out.val = st.val
               /\ (e.out.tag = "Resolved") = (st.tag = "Success")
               /\ (e.out.tag = "Rejected") = (st.tag # "Success")
  /\ \A e, f \in BagToSet(evals) :
       (e.m = f.m /\ e.via = f.via) => e.out = f.out
  /\ \A m \in DOMAIN monads :
       /\ monads[m].runs <= 1
       /\ monads[m].calls <= 2
       /\ (monads[m].kind \in Combinators /\ monads[m].st # Pending)
            => monads[m].runs = 1

\* A Monad whose reaction called a user function was evaluated twice by
\* yield.
ExactlyOnceWitness ==
  \E e \in BagToSet(evals) :
    /\ e.via = "yield"
    /\ CopiesIn(e, evals) >= 2
    /\ monads[e.m].kind \in Combinators
    /\ monads[e.m].calls = 1

\* C2: map, flatMap, filter and tap of a Monad that settled to Failure(e)
\* settle to Failure(e) with the same e and invoke no user function.
ShortCircuitLaw ==
  \A m \in DOMAIN monads :
    (/\ monads[m].kind \in ShortCircuiting
     /\ monads[m].st # Pending
     /\ monads[monads[m].parent].st.tag = "Failure")
      => /\ monads[m].st = Failure(monads[monads[m].parent].st.val)
         /\ monads[m].calls = 0

\* A map of a Monad that failed with an Error object has settled.
ShortCircuitWitness ==
  \E m \in DOMAIN monads :
    /\ monads[m].kind = "map"
    /\ monads[m].st # Pending
    /\ monads[monads[m].parent].st = Failure(Err("boom"))

\* C3: yield() of a Monad built by the combinators always settles to a
\* Success or a Failure and never rejects, also when user functions throw.
YieldNeverRejects ==
  /\ \A m \in DOMAIN monads : monads[m].st.tag # "Rejected"
  /\ \A e \in BagToSet(evals) : e.via = "yield" => IsEither(e.out)

\* Monad m is a settled `kind` of a Monad that settled to Success, so its
\* reaction called the function and arg holds what the function did.
AppliedToSuccess(m, kind) ==
  /\ monads[m].kind = kind
  /\ monads[m].st # Pending
  /\ monads[monads[m].parent].st.tag = "Success"

\* The function threw, or returned a promise that rejected.
FnFailed(fn) ==
  fn.how = "throw" \/ (fn.how = "promise" /\ fn.tag = "Rejected")

\* The function returned a plain value or a promise that resolved.
FnCompleted(fn) ==
  fn.how = "value" \/ (fn.how = "promise" /\ fn.tag = "Success")

\* C12: on a Success input, a map or flatMap whose function throws or
\* rejects settles to Failure of the message of a thrown Error, or of the
\* thrown value itself when it is not an Error; when the function completes
\* with a plain or deferred value it settles to Success of that value.
TransformExceptions ==
  \A m \in DOMAIN monads :
    (AppliedToSuccess(m, "map") \/ AppliedToSuccess(m, "flatMap"))
      => LET fn == monads[m].arg
         IN /\ monads[m].calls = 1
            /\ FnFailed(fn) =>
                 monads[m].st = IF fn.val.kind = "Error"
                                THEN Failure(Str(fn.val.s))
                                ELSE Failure(fn.val)
            /\ FnCompleted(fn) => monads[m].st = Success(fn.val)

\* A flatMap of a Success whose function returned a promise that rejected
\* with an Error has settled to Failure of the message.
TransformExceptionsWitness ==
  \E m \in DOMAIN monads :
    /\ AppliedToSuccess(m, "flatMap")
    /\ monads[m].arg = Fn("promise", "Rejected", Err("boom"))
    /\ monads[m].st = Failure(Str("boom"))

\* C13: on a Success input, a flatMap whose function returns a Monad settles
\* to the Either that Monad settles to: its Success value, or its Failure
\* with the error unchanged; never a Success wrapping a Monad or an Either.
FlatMapFlattens ==
  \A m \in DOMAIN monads :
    /\ (AppliedToSuccess(m, "flatMap") /\ monads[m].arg.how = "monad")
         => /\ monads[m].st.tag = monads[m].arg.tag
            /\ monads[m].st.val = monads[m].arg.val
    /\ AppliedToSuccess(m, "flatMap")
         => monads[m].st.val.kind \notin {"Monad", "Either"}

\* A flatMap of a Success whose function returned a Monad that failed with
\* an Error object has settled to that Failure, the Error uncoerced.
FlatMapFlattensWitness ==
  \E m \in DOMAIN monads :
    /\ AppliedToSuccess(m, "flatMap")
    /\ monads[m].arg = Fn("monad", "Failure", Err("boom"))
    /\ monads[m].st = Failure(Err("boom"))
\* C19: of(value, error) settles to Failure(error) whenever an error
\* argument is supplied, whatever its value, and to Success(value) when
\* none is; fail(error) settles to Failure(error) for every error.
OfFailsOnEverySuppliedError ==
  \A m \in DOMAIN monads :
    /\ monads[m].kind = "of" =>
         monads[m].st = IF monads[m].arg.val = Undefined
                        THEN Success(Str("a"))
                        ELSE Failure(monads[m].arg.val)
    /\ monads[m].kind = "fail" => monads[m].st = Failure(monads[m].arg.val)

\* C20: recover of any Monad settles to Success: to Success(fn(error)) on a
\* Failure input, and to the input's Success, fn not invoked, on a Success
\* input.
RecoverAlwaysSucceeds ==
  \A m \in DOMAIN monads :
    (/\ monads[m].kind = "recover"
     /\ monads[m].st # Pending
     /\ IsEither(monads[monads[m].parent].st))
      => /\ monads[m].st.tag = "Success"
         /\ isSuccess(monads[monads[m].parent].st)
              => /\ monads[m].st = monads[monads[m].parent].st
                 /\ monads[m].calls = 0
         /\ ~isSuccess(monads[monads[m].parent].st)
              => /\ monads[m].calls = 1
                 /\ monads[m].arg.how = "value"
                 /\ monads[m].st = Success(monads[m].arg.val)
\* Monad m is a settled `kind` of a Monad that settled to a Failure.
AppliedToFailure(m, kind) ==
  /\ monads[m].kind = kind
  /\ monads[m].st # Pending
  /\ monads[monads[m].parent].st.tag = "Failure"

\* C21: orElse of a Monad that settled to Failure settles to the Either the
\* alternative Monad settles to (the Monad given, or the one the function
\* returned), a Failure of the alternative included; orElse of a Monad that
\* settled to Success settles to that Success and calls no function.
OrElseAdoptsAlternative ==
  \A m \in DOMAIN monads :
    /\ (AppliedToFailure(m, "orElse") /\ monads[m].arg.how \in {"given", "monad"})
         => /\ monads[m].st = Settled(monads[m].arg.tag, monads[m].arg.val)
            /\ monads[m].calls = IF monads[m].arg.how = "given" THEN 0 ELSE 1
    /\ AppliedToSuccess(m, "orElse")
         => /\ monads[m].st = monads[monads[m].parent].st
            /\ monads[m].calls = 0

\* An orElse of a failed Monad whose function returned a Monad that failed
\* with an Error has settled to that Failure.
OrElseAdoptsAlternativeWitness ==
  \E m \in DOMAIN monads :
    /\ AppliedToFailure(m, "orElse")
    /\ monads[m].arg = Fn("monad", "Failure", Err("boom"))
    /\ monads[m].st = Failure(Err("boom"))
\* C22: filter of a Monad that settled to Success(v) settles to that
\* Success when the predicate yields true, and to Failure(errorFn(v)) when
\* it yields false, throws or rejects: the default message when errorFn is
\* omitted, and never what the predicate threw.
FilterRule ==
  \A m \in DOMAIN monads :
    AppliedToSuccess(m, "filter")
      => LET predicate == monads[m].arg
             errorFn == monads[m].errorFn
         IN /\ (FnCompleted(predicate) /\ predicate.val = Bool(TRUE))
                 => /\ monads[m].st = monads[monads[m].parent].st
                    /\ monads[m].calls = 1
            /\ (/\ FnFailed(predicate) \/ predicate.val = Bool(FALSE)
                /\ errorFn.how = "value")
                 => /\ monads[m].st = Failure(errorFn.val)
                    /\ monads[m].calls = 2
            /\ (/\ FnFailed(predicate) \/ predicate.val = Bool(FALSE)
                /\ errorFn.how = "default")
                 => monads[m].st =
                      Failure(Str("Value did not satisfy the predicate"))
            /\ FnFailed(predicate)
                 => /\ monads[m].st # Failure(predicate.val)
                    /\ monads[m].st # Failure(Str(predicate.val.s))

\* A filter of a Success whose predicate threw an Error and whose errorFn
\* returned 'e2' has settled to Failure('e2').
FilterRuleWitness ==
  \E m \in DOMAIN monads :
    /\ AppliedToSuccess(m, "filter")
    /\ monads[m].arg = Fn("throw", "Rejected", Err("boom"))
    /\ monads[m].errorFn = Fn("value", "Success", Str("e2"))
    /\ monads[m].st = Failure(Str("e2"))
\* C23: tap of a Monad that settled to Success(v) calls fn once and settles
\* to Success(v), whatever fn returns or does.
TapNeverAlters ==
  \A m \in DOMAIN monads :
    AppliedToSuccess(m, "tap")
      => /\ monads[m].calls = 1
         /\ monads[m].st = monads[monads[m].parent].st

\* C26: the promise toPromise returns resolves to the value when yield()
\* of the same Monad gives Success(value) and rejects with the error when
\* it gives Failure(error); so of(v).toPromise() resolves to v and
\* fail(e).toPromise() rejects with e.
ToPromiseRoundTrip ==
  \A e \in BagToSet(evals) :
    e.via = "toPromise" =>
      /\ yield(e.m).tag = "Success" => e.out = Settled("Resolved", yield(e.m).val)
      /\ yield(e.m).tag = "Failure" => e.out = Rejected(yield(e.m).val)
      /\ (monads[e.m].kind = "of" /\ monads[e.m].arg = Argument(Undefined)) =>
           (e.out.tag = "Resolved" /\ e.out.val \in Values)
      /\ monads[e.m].kind = "fail" => e.out = Rejected(monads[e.m].arg.val)

\* fail(e) was evaluated by yield(), which gave Failure(e), and by
\* toPromise(), which rejected.
ToPromiseRoundTripWitness ==
  /\ \E e \in BagToSet(evals), y \in BagToSet(evals) :
       /\ e.via = "toPromise" /\ y.via = "yield" /\ e.m = y.m
       /\ monads[e.m].kind = "fail"
       /\ y.out.tag = "Failure"
       /\ e.out.tag = "Rejected"

\* ------------------------------------------------------------------------
\* Properties of SpecMatch
\* ------------------------------------------------------------------------

\* Condition k is the first whose predicate is true: the predicates before
\* it returned false.
FirstTrue(k) ==
  /\ k \in DOMAIN mConds
  /\ ~Threw(mConds[k].condition) /\ Truthy(mConds[k].condition.val)
  /\ \A j \in 1..(k - 1) :
       ~Threw(mConds[j].condition) /\ ~Truthy(mConds[j].condition.val)

\* No predicate is true.
NoneTrue ==
  \A j \in DOMAIN mConds :
    ~Threw(mConds[j].condition) /\ ~Truthy(mConds[j].condition.val)

MatchDoneOnSuccess == mPc = "done" /\ isSuccess(mIn)

\* C8: in FIRST mode on a Success input the predicates are called in
\* declaration order up to the first true one, only its action is called,
\* its result is the new Success value, and no later predicate or action is
\* invoked.
FirstModeStopsAtFirstMatch ==
  \A k \in DOMAIN mConds :
    (/\ MatchDoneOnSuccess
     /\ (~mArg.given \/ mArg.mode = "FIRST")
     /\ FirstTrue(k))
      => /\ mPredCalls = [j \in 1..k |-> j]
         /\ mActCalls = <<k>>
         /\ ~Threw(mConds[k].action) => mOut = Success(mConds[k].action.val)

\* FIRST mode with two conditions that both hold and whose actions return
\* different values: the first action's value is the result.
FirstModeWitness ==
  /\ MatchDoneOnSuccess
  /\ mArg.given /\ mArg.mode = "FIRST"
  /\ Len(mConds) = 2
  /\ FirstTrue(1)
  /\ Truthy(mConds[2].condition.val) /\ ~Threw(mConds[2].condition)
  /\ mConds[1].action = Fn("value", "Success", Str("b"))
  /\ mConds[2].action = Fn("promise", "Success", Str("c"))
  /\ mOut = Success(Str("b"))

\* C9: an options object that omits mode still runs in FIRST mode: with a
\* matching condition whose action completes, the result is
\* Success(the action's result).
ModeDefaultsToFirst ==
  \A k \in DOMAIN mConds :
    (/\ MatchDoneOnSuccess
     /\ mArg.given /\ mArg.mode = "undefined"
     /\ FirstTrue(k)
     /\ ~Threw(mConds[k].action))
      => mOut = Success(mConds[k].action.val)

\* C10: on a Success input with no true predicate (or no condition at all)
\* no action is invoked and the result is Failure("No conditions matched"),
\* or the original Success when continueIfNoMatch is true.
NoMatchRule ==
  (MatchDoneOnSuccess /\ NoneTrue)
    => /\ mActCalls = <<>>
       /\ mOut = IF mArg.given /\ mArg.continueIfNoMatch = "true"
                 THEN mIn
                 ELSE Failure(Str("No conditions matched"))

\* Two conditions, neither holds, continueIfNoMatch is set: the original
\* Success comes back.
NoMatchWitness ==
  /\ MatchDoneOnSuccess
  /\ NoneTrue
  /\ Len(mConds) = 2
  /\ mArg.given /\ mArg.continueIfNoMatch = "true"
  /\ mOut = mIn


\* The action that was invoked last threw or returned a promise that
\* rejected.
LastActionThrew ==
  /\ mActCalls # <<>>
  /\ Threw(mConds[mActCalls[Len(mActCalls)]].action)

\* The value it threw.
LastThrown == mConds[mActCalls[Len(mActCalls)]].action.val

\* C11: when the action of a matched condition throws or rejects, match
\* settles at once: to the original Success if continueOnError is true,
\* otherwise to Failure of the message of a thrown Error, or of the thrown
\* value itself when it is not an Error.
MatchActionThrows ==
  (MatchDoneOnSuccess /\ LastActionThrew)
    => /\ mPredCalls = [j \in 1..mActCalls[Len(mActCalls)] |-> j]
       /\ mOut = IF mArg.given /\ mArg.continueOnError = "true"
                 THEN mIn
                 ELSE IF LastThrown.kind = "Error"
                      THEN Failure(Str(LastThrown.s))
                      ELSE Failure(LastThrown)

\* The action of the second condition threw an Error in EVERY mode, after
\* the first action completed: the result is Failure of the message.
MatchActionThrowsWitness ==
  /\ MatchDoneOnSuccess
  /\ LastActionThrew
  /\ mArg.given /\ mArg.mode = "EVERY" /\ mArg.continueOnError = "false"
  /\ mActCalls = <<1, 2>>
  /\ LastThrown = Err("boom")
  /\ mOut = Failure(Str("boom"))

\* The conditions whose predicate is true, in declaration order.
TruePredicates ==
  SelectSeq([j \in DOMAIN mConds |-> j],
            LAMBDA j : ~Threw(mConds[j].condition) /\ Truthy(mConds[j].condition.val))

\* No predicate throws.
PredicatesReturn == \A j \in DOMAIN mConds : ~Threw(mConds[j].condition)

\* C27: in EVERY mode on a Success input every predicate is tested and the
\* action of every condition whose predicate is true is executed once, in
\* declaration order; when no action throws the result is the original
\* Success, or, when no predicate is true, what the continueIfNoMatch rule
\* gives.
EveryModeRunsEveryMatch ==
  (/\ MatchDoneOnSuccess
   /\ mArg.given /\ mArg.mode = "EVERY"
   /\ PredicatesReturn)
    => /\ mPredCalls = [j \in DOMAIN mConds |-> j]
       /\ mActCalls = TruePredicates
       /\ (\A j \in DOMAIN mConds : ~Threw(mConds[j].action))
            => mOut = IF TruePredicates # <<>> \/ mArg.continueIfNoMatch = "true"
                      THEN mIn
                      ELSE Failure(Str("No conditions matched"))

\* ------------------------------------------------------------------------

\* Child i is the failing child of lowest index.
FirstFailing(i) ==
  /\ zKids[i].st.tag = "Failure"
  /\ \A j \in 1..(i - 1) : zKids[j].st.tag # "Failure"

\* C4: when every child has settled and at least one settled to Failure,
\* the aggregate is the Failure carrying the error of the failing child of
\* lowest index, whatever the order of settling and whatever the error.
ZipFirstFailureByInputOrder ==
  \A i \in DOMAIN zKids :
    (/\ zPc = "done"
     /\ \A j \in DOMAIN zKids : IsEither(zKids[j].st)
     /\ FirstFailing(i))
      => /\ zOut.tag = "Failure"
         /\ zOut.error = zKids[i].st.val

\* Every child has settled to Success and the aggregate has settled.
ZipAllSucceeded ==
  /\ zPc = "done"
  /\ \A j \in DOMAIN zKids : isSuccess(zKids[j].st)

\* The key the claim gives child i (i counts from 1 here, the positional
\* key counts from 0): its name if it has a non-empty one.
NameOrPosition(i) ==
  IF zKids[i].name.kind = "string" /\ zKids[i].name.s # ""
  THEN zKids[i].name.s
  ELSE "m" \o ToString(i - 1)

\* C14: when every child settles to Success the aggregate is Success of a
\* mapping that holds the value of every child i under its name, or under
\* "m<i>" when it has none, whether the entries were passed as one array or
\* as separate arguments.
ZipKeysByNameOrPosition ==
  ZipAllSucceeded
    => /\ zOut.tag = "Success"
       /\ \A i \in DOMAIN zKids :
            /\ NameOrPosition(i) \in DOMAIN zOut.value
            /\ zOut.value[NameOrPosition(i)] = zKids[i].st.val

\* C28: whatever names the entries carry (absent, empty, repeated, equal to
\* another entry's positional key), when all N children settle to Success
\* the mapping has exactly N entries and holds the value of every child
\* under that child's own key.
ZipKeepsEveryChild ==
  ZipAllSucceeded
    => /\ zOut.tag = "Success"
       /\ Cardinality(DOMAIN zOut.value) = Len(zKids)
       /\ \A i \in DOMAIN zKids :
            /\ key(zKids[i].name, i - 1) \in DOMAIN zOut.value
            /\ zOut.value[key(zKids[i].name, i - 1)] = zKids[i].st.val

\* While a child is pending and none has rejected, the aggregate is
\* pending, also when another child has already failed; the aggregate
\* holds an Either only when every child holds one.
ZipWaitsForAll ==
  /\ ((\E j \in DOMAIN zKids : zKids[j].st = Pending)
       /\ (\A j \in DOMAIN zKids : zKids[j].st.tag # "Rejected"))
        => (zPc = "joining" /\ zOut = ZipPending)
  /\ zOut.tag \in {"Success", "Failure"}
        => \A j \in DOMAIN zKids : IsEither(zKids[j].st)

\* C15: the children of zip settle in any order; the aggregate does not
\* settle before every child has settled, not even when a child has already
\* failed, and once every child has settled the aggregate settles.
ZipJoinsAllChildren ==
  /\ []ZipWaitsForAll
  /\ (zPc = "joining" /\ \A j \in DOMAIN zKids : IsEither(zKids[j].st))
       ~> (zPc = "done")

\* The second of two children failed while the first was pending, the
\* first then succeeded, and the aggregate settled to that Failure.
ZipJoinsAllChildrenWitness ==
  /\ zPc = "done"
  /\ Len(zKids) = 2
  /\ zOutOfOrder
  /\ isSuccess(zKids[1].st)
  /\ zKids[2].st = Failure(Str("e1"))
  /\ zOut.tag = "Failure" /\ zOut.error = Str("e1")

\* ------------------------------------------------------------------------
\* Properties of SpecRetry and FairSpecRetry
\* ------------------------------------------------------------------------

AllAttemptsFailed == \A i \in DOMAIN rAttempts : rAttempts[i].tag = "Failure"
AllErrorsTruthy ==
  \A i \in DOMAIN rAttempts :
    rAttempts[i].tag = "Failure" => Truthy(rAttempts[i].val)
LastAttemptSucceeded ==
  rAttempts # <<>> /\ isSuccess(rAttempts[Len(rAttempts)])

RetryBudgetHolds ==
  /\ rCalls <= 1 + rOpt.times
  /\ \A i \in 1..(Len(rAttempts) - 1) : ~isSuccess(rAttempts[i])
  /\ (rPc = "done" /\ LastAttemptSucceeded)
       => /\ rOut = rAttempts[Len(rAttempts)]
          /\ rCalls = Len(rAttempts)
  /\ (rPc = "done" /\ AllAttemptsFailed /\ Len(rAttempts) = 1 + rOpt.times)
       => rOut = Failure(rAttempts[Len(rAttempts)].val)

\* C5: operationFn is called at most 1 + times times; retry settles to the
\* first Success without calling operationFn again, and to the Failure of
\* the last attempt when all 1 + times attempts fail; once called, retry
\* eventually settles.
RetryBudget ==
  /\ []RetryBudgetHolds
  /\ (rPc # "idle") ~> (rPc = "done")

\* Two failures and then a Success with times = 2: three calls, the Success
\* is the result.
RetryBudgetWitness ==
  /\ rPc = "done"
  /\ rOpt.times = 2
  /\ Len(rAttempts) = 3
  /\ LastAttemptSucceeded
  /\ rCalls = 3
  /\ isSuccess(rOut)

\* C6 as stated: onError is called after every failed attempt, the last one
\* included: times + 1 calls when no attempt succeeds, k - 1 calls when
\* attempt k is the first to succeed.
OnErrorAfterEveryFailedAttempt ==
  (rPc = "done" /\ rOpt.onError = "returns")
    => /\ (AllAttemptsFailed /\ Len(rAttempts) = rOpt.times + 1)
            => Len(rOnError) = rOpt.times + 1
       /\ LastAttemptSucceeded => Len(rOnError) = Len(rAttempts) - 1

\* The calls of onError owed for the attempts 1..n: one for each attempt
\* that failed with a truthy error while a retry was left.
RECURSIVE Reported(_)
Reported(n) ==
  IF n = 0
  THEN <<>>
  ELSE IF /\ rAttempts[n].tag = "Failure"
          /\ n <= rOpt.times
          /\ Truthy(rAttempts[n].val)
       THEN Append(Reported(n - 1),
                   [error |-> rAttempts[n].val, attempt |-> n - 1])
       ELSE Reported(n - 1)

\* C6 as amended: onError(error, attemptIndex) is called once after a failed
\* attempt exactly when a retry is left and the error is truthy, before the
\* next attempt is constructed: with truthy errors, k - 1 calls when attempt
\* k is the first to succeed and times calls when no attempt succeeds.
OnErrorAfterRetriedFailures ==
  /\ rOpt.onError = "none" => rOnError = <<>>
  /\ rOpt.onError # "none" => rOnError = Reported(Len(rAttempts))
  /\ (rPc = "done" /\ rOpt.onError = "returns" /\ AllErrorsTruthy)
       => /\ (AllAttemptsFailed /\ Len(rAttempts) = rOpt.times + 1)
               => Len(rOnError) = rOpt.times
          /\ LastAttemptSucceeded => Len(rOnError) = Len(rAttempts) - 1

\* Three failed attempts with times = 2: onError was called twice.
OnErrorWitness ==
  /\ rPc = "done"
  /\ rOpt.times = 2
  /\ rOpt.onError = "returns"
  /\ Len(rAttempts) = 3
  /\ AllAttemptsFailed
  /\ AllErrorsTruthy
  /\ Len(rOnError) = 2

RECURSIVE Power(_, _)
Power(b, n) == IF n = 0 THEN 1 ELSE b * Power(b, n - 1)

\* delay * backoffFactor^(k - 1), backoffFactor being 1 when omitted.
WaitAfter(k) ==
  rOpt.delay * Power(IF rOpt.backoffFactor = 0 THEN 1 ELSE rOpt.backoffFactor,
                     k - 1)

TimeoutFirstPathWins ==
  (tEvents # <<>> /\ tOp.tag # "Thrown")
    => /\ tEvents[1] = "timer" => tOuter = Failure(tErr)
       /\ (/\ tEvents[1] = "operation"
           /\ IsEither(tOp)
           /\ ~(tOp.tag = "Failure" /\ IsAbortError(tOp.val)))
            => tOuter = tOp
       /\ \A i \in DOMAIN tSeen : tSeen[i] = tOuter

\* The timer fired first, the outer Monad was evaluated, and the operation
\* settled to a Success afterwards.
TimeoutWitness ==
  /\ tEvents = <<"timer", "operation">>
  /\ isSuccess(tOp)
  /\ tSeen # <<>>
  /\ tOuter = Failure(tErr)

\* The operation settled to the Failure an aborted operation produces.
OperationAborted == tOp = Failure(DOMException("AbortError"))

\* C16: once operation(signal) has returned its Monad, a timer that fires
\* first aborts the signal and makes the outer result
\* Failure(timeoutError), whatever the operation does afterwards; a Failure
\* of the operation that is an AbortError never becomes the outer result,
\* before or after the timer: the outer promise stays pending with the
\* timer armed until the timer path settles it to Failure(timeoutError).
TimeoutCancellation ==
  (tOp.tag # "Thrown")
    => /\ (tEvents # <<>> /\ tEvents[1] = "timer")
            => (tAborted /\ tOuter = Failure(tErr))
       /\ OperationAborted
            => \/ tOuter = Pending /\ tTimer = "armed"
               \/ tOuter = Failure(tErr) /\ tTimer = "fired"

\* The operation failed with an AbortError before the timer fired; the
\* timer then fired and settled the outer result.
TimeoutCancellationWitness ==
  /\ tEvents = <<"operation", "timer">>
  /\ OperationAborted
  /\ tOuter = Failure(tErr)
  /\ ~tAborted

\* A timer that has fired has settled the outer promise, to
\* Failure(timeoutError) if the operation has not settled.
TimerSettlesOuter ==
  /\ tTimer = "fired" => tOuter # Pending
  /\ (tTimer = "fired" /\ tOp = Pending) => tOuter = Failure(tErr)

\* C17: the promise of the Monad timeout returns always settles in the end,
\* also when the operation never settles: the timer then settles it to
\* Failure(timeoutError), while the operation's promise may stay pending.
TimeoutAlwaysSettles ==
  /\ []TimerSettlesOuter
  /\ (tPc = "running") ~> (tOuter # Pending)

\* The timer fired and the outer Monad was evaluated while the operation
\* was still pending.
TimeoutAlwaysSettlesWitness ==
  /\ tTimer = "fired"
  /\ tAborted
  /\ tOp = Pending
  /\ tOuter = Failure(tErr)
  /\ tSeen = <<Failure(tErr)>>

\* C29: when the operation settles to Success, or to a Failure that is not
\* an AbortError, before the timer fires, the timer is cancelled: the timer
\* callback never runs and the signal is never aborted.
TimeoutTimerCancelled ==
  (/\ IsEither(tOp)
   /\ (isSuccess(tOp) \/ ~IsAbortError(tOp.val))
   /\ tEvents # <<>> /\ tEvents[1] = "operation")
    => /\ tTimer = "cleared"
       /\ ~tAborted
       /\ \A i \in DOMAIN tEvents : tEvents[i] # "timer"

\* The operation failed with a DOMException that is not an AbortError
\* while the timer was armed, and yield() saw that Failure.
TimeoutTimerCancelledWitness ==
  /\ tOp = Failure(DOMException("NetworkError"))
  /\ tEvents = <<"operation">>
  /\ tTimer = "cleared"
  /\ tSeen = <<tOp>>

\* ------------------------------------------------------------------------
\* Properties of SpecFold
\* ------------------------------------------------------------------------

\* C24: the promise fold returns never rejects; it resolves to an object
\* with exactly one of the fields result and error; only the callback that
\* matches the settled Either is invoked; result is what that callback
\* returned, and when the callback threw, error is what it threw and result
\* is not set.
FoldNeverRejects ==
  fPc = "done"
    => /\ fOut.tag = "Resolved"
       /\ (fOut.val.result = Absent) # (fOut.val.error = Absent)
       /\ isSuccess(fIn) => fInvoked = <<"onSuccess">>
       /\ fIn.tag = "Failure" => fInvoked = <<"onFailure">>
       /\ \A name \in {"onSuccess", "onFailure"} :
            fInvoked = <<name>>
              => LET fn == fCallbacks[name]
                 IN /\ fn.how = "throw"
                         => fOut.val = [result |-> Absent, error |-> fn.val]
                    /\ fn.how = "value"
                         => fOut.val = [result |-> fn.val, error |-> Absent]
                    /\ fn.how = "promise" => fOut.val.result.kind = "Promise"

\* fold of a Monad that settled to Failure whose onFailure threw an Error,
\* while onSuccess would have returned a value: the Error is in error.
FoldNeverRejectsWitness ==
  /\ fPc = "done"
  /\ fIn.tag = "Failure"
  /\ fCallbacks.onFailure = Fn("throw", "Rejected", Err("boom"))
  /\ fCallbacks.onSuccess = Fn("value", "Success", Str("b"))
  /\ fOut = Settled("Resolved", [result |-> Absent, error |-> Err("boom")])


\* ------------------------------------------------------------------------
\* Properties of SpecHandle
\* ------------------------------------------------------------------------

\* Every dimension present in the criteria matches the error: the error
\* carries a status code that is one of statusCodes, a message that is one
\* of messages, and is an instance of one of types.
MatchesCriteria(criteria, error) ==
  /\ criteria.statusCodes.present =>
       /\ IsObject(error)
       /\ hasOwnStatusCode(error)
       /\ error.statusCode \in criteria.statusCodes.of
  /\ criteria.messages.present =>
       /\ IsObject(error)
       /\ hasMessage(error)
       /\ error.s \in criteria.messages.of
  /\ criteria.types.present =>
       \E type \in criteria.types.of : instanceof(error, type)

\* C25: when the receiver settles to Failure(error) and the handler returns
\* a Monad, the derived Monad settles to the Either of handler(error), the
\* handler called once, exactly when every present dimension of the criteria
\* matches the error; otherwise, and on Success, it settles to the receiver's
\* Either and the handler is not called.  handleSpecificErrors and
\* handleHttpErrors behave as handleErrors with the types alone and the
\* status codes alone.
HandleErrorsRule ==
  (hPc = "done" /\ IsEither(hIn) /\ hHandler.how # "throw") =>
    IF ~isSuccess(hIn) /\ MatchesCriteria(hCriteria, hIn.val)
    THEN hOut = Settled(hHandler.tag, hHandler.val) /\ hCalls = 1
    ELSE hOut = hIn /\ hCalls = 0


\* ------------------------------------------------------------------------
\* Properties of SpecStream
\* ------------------------------------------------------------------------

\* C30: an emit that has returned invoked the listener of every subscription
\* in force when it started, once per subscription and in subscription
\* order, and no other: a listener that unsubscribed itself during delivery
\* made no other listener miss the event, a listener whose unsubscribe
\* function had been called was not invoked, and calling an unsubscribe
\* function again removed nothing.
EventStreamDelivery ==
  (sPc = "idle" /\ sEmits > 0) => sDelivered = sExpected

=============================================================================
